---- MODULE Spec2Model ----
(***************************************************************************)
(* The payment reconciliation back end of eezyspaza-backend.               *)
(*                                                                         *)
(* The repository holds several server files, each a complete express      *)
(* application with its own /create-checkout, webhook and redirect routes. *)
(* One of them is deployed (deployed); its route handlers are the actions, *)
(* and each server file has its own specification:                         *)
(*   SpecPart001   src/unnamed/part_001                                    *)
(*   SpecPart001Concurrent  part_001 with two deliveries at the same time   *)
(*   SpecPart004   src/unnamed/part_004                                    *)
(*   SpecPart005   src/unnamed/part_005                                    *)
(*   SpecServerJsFirst  src/server.js, the first application in the file   *)
(*   SpecServerJs  src/server.js, the second application in the file       *)
(*   SpecBackend   src/backend/server.js, the Firebase-integrated one      *)
(*   SpecPart001Import  part_001 and src/importProducts.js on one store    *)
(*   SpecTransaction  the transaction functions of the webhooks, alone     *)
(*   SpecPart001Redelivery  part_001, the provider repeating a delivery    *)
(* The document store (orders, products) and the payment provider are      *)
(* external: the store is the pair of functions orders/products, a store   *)
(* call may fail, and every provider answer is a nondeterministic input.   *)
(*                                                                         *)
(* Amounts: a decimal amount of a request is held in thousandths of a rand *)
(* (milli), an amount in minor units in cents.                             *)
(* Server timestamps (createdAt, updatedAt), customer names and error      *)
(* messages written to documents are not modelled: no handler reads them.  *)
(***************************************************************************)
EXTENDS Integers, Sequences, FiniteSets, TLC

\* ---------------------------------------------------------------- bounds
MaxStock == 1        \* initial stock of a product is 0..MaxStock
MaxQty == 1          \* a line item's quantity is 0..MaxQty
MaxItems == 2        \* line items per webhook event
MaxRequests == 3     \* requests handled in one run

VARIABLES
    deployed,        \* the server file that is running
    webhookSecret,   \* process.env.YOCO_WEBHOOK_SECRET: "unset", "noprefix", "ok"
    apiKeySet,       \* process.env.YOCO_SECRET_KEY is set
    orders,          \* collection 'orders': document id -> document
    products,        \* collection 'products': document id -> document
    pendingWrites,   \* store writes issued and not awaited, still in flight
    lastReq,         \* the request the last handler run served
    resp,            \* the response it sent
    handled,         \* number of requests served
    inFlight         \* deliveries of one event that were sent at the same time

vars == <<deployed, webhookSecret, apiKeySet, orders, products, pendingWrites,
          lastReq, resp, handled, inFlight>>

DocIds == {"o1", "o2"}             \* order document ids / order references
ProductIds == {"p1", "p2"}         \* product document ids
CheckoutIds == {"c1", "c2"}        \* checkout session ids of the provider
None == "none"                     \* undefined / null / absent

NoOrder == [exists |-> FALSE, status |-> None, order_reference |-> None,
            checkoutId |-> None, amount |-> 0, amountInCents |-> 0,
            yocoPaymentId |-> None]

\* a product document: the stock field may be absent or not a number
NoProduct == [exists |-> FALSE, hasStock |-> FALSE, stock |-> 0]

Item == [id : ProductIds, quantity : 0..MaxQty]

RECURSIVE SeqsUpTo(_, _)
SeqsUpTo(S, n) ==
    IF n = 0 THEN {<<>>}
    ELSE LET shorter == SeqsUpTo(S, n - 1)
         IN  shorter \cup {Append(s, x) : s \in {t \in shorter : Len(t) = n - 1}, x \in S}

\* line-item lists: every list of sold quantities, and the lists of one item
\* of any quantity
ItemLists ==
    SeqsUpTo({it \in Item : it.quantity > 0}, MaxItems) \cup {<<it>> : it \in Item}

\* statuses the server files use for "payment received" and "awaiting it"
PaidStatuses == {"paid", "payment_succeeded", "completed", "successful"}
PendingStatuses == {"pending", "pending_yoco_payment"}
IsPaid(o) == o.exists /\ o.status \in PaidStatuses
IsPending(o) == o.exists /\ o.status \in PendingStatuses

\* ------------------------------------------------------------ requests
\* The body of a webhook request: the provider's event. orderId is
\* payload.metadata.firebase_order_id / order_reference (each server file reads
\* the one its own create-checkout sent), paymentId is payload.id, checkoutId is
\* metadata.checkoutId (data.checkoutId), items is the parsed metadata.items.
Event(type, orderId, paymentId, checkoutId, items) ==
    [type |-> type, orderId |-> orderId, paymentId |-> paymentId,
     checkoutId |-> checkoutId, amount |-> 6499, items |-> items]

\* payment.succeeded events with every field the provider sends
SucceededEvents ==
    {Event("payment.succeeded", o, "pay1", c, items) :
        o \in DocIds \cup {None}, c \in {"c1"}, items \in ItemLists}

\* events that lack the payment id or the checkout id
IncompleteEvents ==
    {Event("payment.succeeded", "o1", None, "c1", <<>>),
     Event("payment.succeeded", "o1", "pay1", None, <<>>)}

\* events of the other types
OtherEvents ==
    {Event(t, "o1", "pay1", "c1", <<>>) :
        t \in {"payment.failed", "payment.cancelled", "payment.refunded"}}

Events == SucceededEvents \cup IncompleteEvents \cup OtherEvents

\* HMAC-SHA256 as an ideal MAC: two digests are equal exactly when key and
\* content are.
Hmac(key, content) == [key |-> key, content |-> content]

\* Keys: the configured secret with the whsec_ prefix stripped and the rest
\* base64-decoded, the configured secret used as the literal string, and the
\* key of somebody who does not know the secret.
DecodedSecret == [secret |-> "configured", form |-> "decoded"]
LiteralSecret == [secret |-> "configured", form |-> "literal"]
OtherSecret == [secret |-> "other", form |-> "decoded"]

\* what a digest was computed over
SignedContent(id, ts, body) == [scheme |-> "id.ts.body", id |-> id, ts |-> ts, body |-> body]
BodyOnly(body) == [scheme |-> "body", id |-> None, ts |-> 0, body |-> body]

\* a body that differs from b in one byte
Tampered(b) == [b EXCEPT !.amount = b.amount + 1]

\* The signature header: absent, or a text in one of the formats
\*   "v1,<sig>"  "v1=<sig>[,v2=...]"  "<sig>" (bare)  and "v2,<sig>" (no v1 entry),
\* where <sig> is a digest in base64 (44 characters) or hex (64 characters).
AnEvent == [type |-> "payment.succeeded", orderId |-> None, paymentId |-> None,
            checkoutId |-> None, amount |-> 6499, items |-> <<>>]
NoSig == [given |-> FALSE, format |-> None, enc |-> None,
          mac |-> Hmac(OtherSecret, BodyOnly(AnEvent))]
Sig(format, enc, mac) == [given |-> TRUE, format |-> format, enc |-> enc, mac |-> mac]

\* length in bytes of the header text
SigTextLen(sig) ==
    (IF sig.format = "bare" THEN 0 ELSE 3) + (IF sig.enc = "hex" THEN 64 ELSE 44)

\* the clock of the server, in seconds, and the timestamps a request may carry
Now == 1000
threeMinutesInSeconds == 3 * 60
Timestamps == {Now - (threeMinutesInSeconds + 1), Now - threeMinutesInSeconds, Now,
               Now + threeMinutesInSeconds, Now + (threeMinutesInSeconds + 1)}

\* A webhook request: the headers webhook-id and webhook-timestamp (tsKind is
\* "none" when absent, "text" when not a number), the signature header (the
\* one the deployed server reads) and the body.
WebhookReq(id, tsKind, ts, sig, body) ==
    [id |-> id, tsKind |-> tsKind, ts |-> ts, sig |-> sig, body |-> body,
     contentType |-> "application/json"]
\* the same request sent as text/plain
AsText(req) == [req EXCEPT !.contentType = "text/plain"]

\* req.body as the webhook handler finds it. A JSON parser (json()) parses a
\* body of type application/json and marks the request as parsed; raw() of
\* the route reads the same type into a Buffer unless the request is marked;
\* a body of another type is left alone, req.body is then the empty object.
\*   globalJson: json() is installed for every route with app.use
\*   routeParser: the parser in the route's own chain, "raw", "json" or "none"
RequestBody(globalJson, routeParser, contentType) ==
    IF contentType # "application/json" THEN "empty"
    ELSE IF globalJson \/ routeParser = "json" THEN "object"
    ELSE IF routeParser = "raw" THEN "buffer"
    ELSE "empty"

\* the signature the payment provider sends: base64 digest, keyed with the
\* decoded secret, over "id.timestamp.body", as "v1,<sig>" or "v1=<sig>"
ProviderSig(format, id, ts, body) ==
    Sig(format, "base64", Hmac(DecodedSecret, SignedContent(id, ts, body)))

\* the signature /webhook of server.js and /yoco-webhook expect: hex digest of
\* the body alone, keyed with the secret string as it is
LiteralHexSig(body) == Sig("bare", "hex", Hmac(LiteralSecret, BodyOnly(body)))

\* signature headers of requests that do not come from the provider unchanged
ForgedSigs(id, ts, body) ==
    { NoSig,
      Sig("v1,", "base64", Hmac(OtherSecret, SignedContent(id, ts, body))),
      Sig("v1,", "base64", Hmac(DecodedSecret, SignedContent(id, ts, Tampered(body)))),
      Sig("v1,", "hex", Hmac(DecodedSecret, SignedContent(id, ts, body))),
      Sig("v2,", "base64", Hmac(DecodedSecret, SignedContent(id, ts, body))),
      Sig("bare", "hex", Hmac(OtherSecret, BodyOnly(body))),
      Sig("bare", "hex", Hmac(LiteralSecret, BodyOnly(Tampered(body)))),
      Sig("bare", "base64", Hmac(LiteralSecret, BodyOnly(body))) }

\* The signature was made by somebody who knows the configured secret, over
\* the content this request carries.
SignatureMatches(req) ==
    /\ req.sig.given
    /\ req.sig.mac.key.secret = "configured"
    /\ req.sig.mac.content.body = req.body
    /\ \/ req.sig.mac.content.scheme = "body"
       \/ req.sig.mac.content.id = req.id /\ req.sig.mac.content.ts = req.ts

\* ---------------------------------------------------- create-checkout input
\* The amount of a create-checkout request: absent (undefined, null, ""), a
\* JSON number, a numeric string, or a string that is no number ("text").
\* milli is the value in thousandths: "64.99" is [kind |-> "string", milli |-> 64990].
Amount(kind, milli) == [kind |-> kind, milli |-> milli]
AmountInputs ==
    {Amount("missing", 0), Amount("text", 0), Amount("number", 0), Amount("string", 0),
     Amount("string", -1000), Amount("string", 4), Amount("string", 4990),
     Amount("string", 4995), Amount("string", 64990), Amount("number", 64990),
     Amount("number", 100000000), Amount("number", 100000010)}

\* !amount
Falsy(amount) == amount.kind = "missing" \/ (amount.kind = "number" /\ amount.milli = 0)
\* isNaN(parseFloat(amount))
IsNaN(amount) == amount.kind \in {"missing", "text"}
\* a conversion that would round to whole rands instead of cents
AmountInRands(amount) == (amount.milli + 500) \div 1000
\* Math.round(parseFloat(amount) * 100): to the nearest cent; the product of
\* the one input that lies halfway, 4.995, is the double 499.5, which goes upwards
AmountInCents(amount) == (amount.milli + 5) \div 10

\* A create-checkout request. A URL is "ok", "bad" (not an absolute URL) or absent.
CheckoutReq(amount, currency, successUrl, cancelUrl, failureUrl, metadata, items, ref) ==
    [amount |-> amount, currency |-> currency, successUrl |-> successUrl,
     cancelUrl |-> cancelUrl, failureUrl |-> failureUrl, metadata |-> metadata,
     items |-> items, order_reference |-> ref]

GoodAmount == Amount("string", 64990)
OneItem == <<[id |-> "p1", quantity |-> 1]>>
\* the line items of a create-checkout request carry the unit price, in
\* thousandths: one unit at 64.99, and two units at 64.99
OneLine == <<[id |-> "p1", quantity |-> 1, price |-> 64990]>>
TwoUnits == <<[id |-> "p1", quantity |-> 2, price |-> 64990]>>
MainRequests ==
    {CheckoutReq(GoodAmount, "ZAR", "ok", "ok", "ok", TRUE, items, ref) :
        items \in {OneLine, TwoUnits, <<>>}, ref \in DocIds \cup {None}}
CheckoutRequests ==
    MainRequests
    \cup {CheckoutReq(a, "ZAR", "ok", "ok", "ok", TRUE, OneLine, None) : a \in AmountInputs}
    \cup {CheckoutReq(GoodAmount, c, "ok", "ok", "ok", TRUE, OneLine, None) : c \in {"zar", None}}
    \cup {CheckoutReq(GoodAmount, "ZAR", u, "ok", "ok", TRUE, OneLine, None) : u \in {"bad", None}}
    \cup {CheckoutReq(GoodAmount, "ZAR", "ok", u, "ok", TRUE, OneLine, None) : u \in {"bad", None}}
    \cup {CheckoutReq(GoodAmount, "ZAR", "ok", "ok", u, TRUE, OneLine, None) : u \in {"bad", None}}
    \cup {CheckoutReq(GoodAmount, "ZAR", "ok", "ok", "ok", FALSE, <<>>, None),
          CheckoutReq(Amount("string", 0), "zar", "bad", None, "ok", TRUE, <<>>, None)}

\* What the payment provider answers to a create-session call: a session
\* (with or without a redirect URL), an HTTP error status, or nothing (the
\* connection fails, or the call times out).
ProviderAnswers ==
    {[kind |-> k, status |-> 200] : k \in {"session", "noRedirectUrl"}}
    \cup {[kind |-> "http", status |-> st] : st \in {401, 503}}
    \cup {[kind |-> k, status |-> 0] : k \in {"network", "timeout"}}

\* What the collaborators do during one create-checkout: the provider's
\* answers to the create-session calls, in order (one more than a handler
\* makes), and for each store call of the handler, in order, whether the store
\* accepts it
Session == [kind |-> "session", status |-> 200]
Unreachable == [kind |-> "network", status |-> 0]
AllOk == <<TRUE, TRUE, TRUE>>
Outcomes ==
    {[answers |-> <<a, Session, Session>>, store |-> AllOk] : a \in ProviderAnswers}
    \cup {[answers |-> <<Unreachable, a, Session>>, store |-> AllOk] : a \in ProviderAnswers}
    \cup {[answers |-> <<Session, Session, Session>>, store |-> st] :
            st \in {<<FALSE, TRUE, TRUE>>, <<TRUE, FALSE, TRUE>>, <<TRUE, FALSE, FALSE>>}}
    \cup {[answers |-> <<[kind |-> "http", status |-> 503], Session, Session>>,
           store |-> <<TRUE, FALSE, TRUE>>]}

\* the create-checkout calls: the main requests under every outcome, the
\* others with collaborators that work
CheckoutCalls ==
    {[req |-> r, out |-> o] : r \in MainRequests, o \in Outcomes}
    \cup {[req |-> r, out |-> [answers |-> <<Session, Session, Session>>, store |-> AllOk]] :
            r \in CheckoutRequests}

\* the session id the provider assigns: one no order carries yet
FreshCheckoutIds == {c \in CheckoutIds : \A d \in DocIds : orders[d].checkoutId # c}
NewCheckoutId == CHOOSE c \in FreshCheckoutIds : \A c2 \in FreshCheckoutIds : c = c2 \/ c # "c2"
\* an auto-generated document id: one no document has yet
FreshDocIds == {d \in DocIds : ~orders[d].exists}
NewDocId == CHOOSE d \in FreshDocIds : \A d2 \in FreshDocIds : d = d2 \/ d # "o2"

\* ------------------------------------------------------------- the store
\* documents of the products collection as the catalog import and earlier
\* sales leave them
ProductDocs ==
    {NoProduct, [exists |-> TRUE, hasStock |-> FALSE, stock |-> 0]}
        \cup {[exists |-> TRUE, hasStock |-> TRUE, stock |-> n] : n \in 0..MaxStock}

\* The state after the deployed server started: the environment variables as
\* they were set, no order yet, the catalog as it is.
InitOf(server, secrets, catalog) ==
    /\ deployed = server
    /\ webhookSecret \in secrets
    /\ apiKeySet \in BOOLEAN
    /\ orders = [d \in DocIds |-> NoOrder]
    /\ products \in catalog
    /\ pendingWrites = {}
    /\ lastReq = [route |-> None]
    /\ resp = [route |-> None, status |-> 0, shows |-> None, calls |-> 0, details |-> <<>>]
    /\ handled = 0
    /\ inFlight = [sent |-> FALSE, waiting |-> 0]

\* catalogs: p1 in stock or sold out, p2 missing, without a stock field or in stock
Catalogs ==
    {c \in [ProductIds -> ProductDocs] :
        c["p1"].hasStock /\ (c["p2"].hasStock => c["p2"].stock = MaxStock)}
FullCatalog == {[p \in ProductIds |-> [exists |-> TRUE, hasStock |-> TRUE, stock |-> MaxStock]]}

\* the environment of a handler that calls nobody, or whose calls succeed
StoreOk == [storeOk |-> TRUE]

\* a handler run: the request served, the response sent and the store after it
\* (calls: the create-session calls made to the provider)
\* (details: the list of validation errors in the body)
\* (env: what the store and the provider did while the handler ran)
Serve(route, req, env, status, shows, calls, details, newOrders, newProducts) ==
    /\ handled < MaxRequests
    /\ handled' = handled + 1
    /\ lastReq' = [route |-> route, req |-> req, env |-> env]
    /\ resp' = [route |-> route, status |-> status, shows |-> shows, calls |-> calls,
                details |-> details]
    /\ orders' = newOrders
    /\ products' = newProducts
    /\ UNCHANGED <<deployed, webhookSecret, apiKeySet, inFlight>>

\* an error of the details list of a 400 response: its text and the fields of
\* the request the text names
Errors(isError, text, fields) ==
    IF isError THEN <<[text |-> text, fields |-> fields]>> ELSE <<>>

\* ------------------------------------ server.js (second file): /create-checkout
\* status of the response, and the order written (wrote = FALSE: none)
CreateCheckoutResult(req, answer, storeOk) ==
    LET orderIdForYoco == IF req.order_reference # None THEN req.order_reference ELSE NewDocId
        amountInCents == AmountInCents(req.amount)
        reject(status, calls) ==
            [status |-> status, calls |-> calls, details |-> <<>>, orders |-> orders]
        \* the first failing check answers with its one error text
        invalid(text, fields) ==
            [status |-> 400, calls |-> 0, details |-> Errors(TRUE, text, fields),
             orders |-> orders]
    IN  IF Falsy(req.amount)
        THEN invalid("Amount is required and must be a non-empty string or number.", {"amount"})
        ELSE IF req.currency = None
        THEN invalid("Currency is required and must be a non-empty string.", {"currency"})
        ELSE IF req.successUrl = None \/ req.cancelUrl = None \/ req.failureUrl = None
        THEN invalid("Success, cancel, and failure URLs are required.",
                     {"successUrl", "cancelUrl", "failureUrl"})
        ELSE IF ~req.metadata
        THEN invalid("Metadata is required and must be an object.", {"metadata"})
        ELSE IF req.items = <<>>
        THEN invalid("Items in metadata are required and must be a non-empty array or valid JSON string.",
                     {"items"})
        ELSE IF IsNaN(req.amount) \/ req.amount.milli <= 0
        THEN invalid("Amount must be a positive number.", {"amount"})
        ELSE IF amountInCents <= 0
        THEN invalid("Calculated amount for Yoco is invalid (must be > 0 cents).", {"amount"})
        ELSE IF ~apiKeySet THEN reject(500, 0)
        ELSE IF answer.kind \in {"network", "timeout"} THEN reject(500, 1)
        ELSE IF answer.kind = "http" THEN reject(answer.status, 1)
        ELSE IF answer.kind = "noRedirectUrl" THEN reject(500, 1)
        ELSE IF ~storeOk THEN reject(500, 1)
        ELSE [status |-> 200, calls |-> 1, details |-> <<>>,
              orders |-> [orders EXCEPT ![orderIdForYoco] =
                            [@ EXCEPT !.exists = TRUE, !.status = "pending",
                                      !.amount = req.amount.milli,
                                      !.amountInCents = amountInCents,
                                      !.checkoutId = NewCheckoutId]]]

CreateCheckout ==
    /\ deployed = "server.js"
    /\ pendingWrites' = pendingWrites
    /\ FreshDocIds # {} /\ FreshCheckoutIds # {}
    /\ \E call \in CheckoutCalls :
          LET r == CreateCheckoutResult(call.req, call.out.answers[1], call.out.store[1])
          IN  Serve("/create-checkout", call.req, call.out, r.status, None, r.calls, r.details,
                    r.orders, products)

\* the three redirect pages: static texts, whatever the query is
RedirectQueries == [orderId : DocIds \cup {None}]
YocoPaymentPage ==
    /\ deployed = "server.js"
    /\ pendingWrites' = pendingWrites
    /\ \E page \in {"success", "cancel", "failure"}, q \in RedirectQueries :
          Serve("/yoco-payment-" \o page, q, StoreOk, 200, page, 0, <<>>, orders, products)

\* ------------------------------------------- server.js (second file): /webhook
\* productReadOperations: the line items whose stock is to be reduced
productReadOperations(items) ==
    SelectSeq(items, LAMBDA item : ~(item.quantity <= 0))

\* productReadOperations.find(op => op.ref.path === snapshot.ref.path)
FindOperation(ops, id) ==
    ops[CHOOSE i \in 1..Len(ops) : ops[i].id = id /\ \A j \in 1..(i - 1) : ops[j].id # id]

\* the write loop over productDocsSnapshots, from snapshot i on; snap is the
\* products collection as transaction.getAll read it
RECURSIVE StockWrites(_, _, _, _)
StockWrites(ops, i, snap, acc) ==
    IF i > Len(ops) THEN acc
    ELSE LET doc == snap[ops[i].id]
             operation == FindOperation(ops, ops[i].id)
             newStock == doc.stock - operation.quantity
         IN  IF ~doc.exists \/ ~doc.hasStock
             THEN StockWrites(ops, i + 1, snap, acc)
             ELSE StockWrites(ops, i + 1, snap,
                              [acc EXCEPT ![ops[i].id].stock = newStock])

\* orderWriteData, written with set when the order document is missing and
\* with update when it exists
OrderWrite(doc, event) ==
    IF ~doc.exists
    THEN [NoOrder EXCEPT !.exists = TRUE, !.status = "paid",
                         !.yocoPaymentId = event.paymentId,
                         !.checkoutId = event.checkoutId,
                         !.amount = event.amount * 10]
    ELSE [doc EXCEPT !.status = "paid",
                     !.yocoPaymentId = event.paymentId,
                     !.checkoutId = event.checkoutId,
                     !.amount = event.amount * 10]

\* db.runTransaction of /webhook. The store refuses a document with an
\* undefined field (yocoPaymentId, yocoCheckoutId), which throws inside the
\* transaction function; storeOk = FALSE is a commit the store rejects.
WebhookTransaction(event, storeOk) ==
    IF ~storeOk \/ event.paymentId = None \/ event.checkoutId = None
    THEN [committed |-> FALSE, orders |-> orders, products |-> products]
    ELSE [committed |-> TRUE,
          orders |-> [orders EXCEPT ![event.orderId] = OrderWrite(@, event)],
          products |-> StockWrites(productReadOperations(event.items), 1, products, products)]

\* status of the response of /webhook and the store it leaves
WebhookResult(req, storeOk) ==
    LET keep(status) == [status |-> status, orders |-> orders, products |-> products]
        expectedSig == Hmac(LiteralSecret, BodyOnly(req.body))
        txn == WebhookTransaction(req.body, storeOk)
    IN  \* bodyParser.json() is installed for every route, rawBodyWebhookParser
        \* comes after it
        IF RequestBody(TRUE, "raw", req.contentType) # "buffer" THEN keep(500)
        ELSE IF webhookSecret = "unset" THEN keep(500)
        ELSE IF ~req.sig.given THEN keep(400)
        ELSE IF SigTextLen(req.sig) # 64 THEN keep(500)
        ELSE IF ~(req.sig.format = "bare" /\ req.sig.enc = "hex" /\ req.sig.mac = expectedSig)
             THEN keep(400)
        ELSE IF req.body.type # "payment.succeeded" THEN keep(200)
        ELSE IF req.body.orderId = None THEN keep(400)
        ELSE IF txn.committed
             THEN [status |-> 200, orders |-> txn.orders, products |-> txn.products]
             ELSE keep(500)

\* the requests /webhook is sent: events signed the way /webhook expects, with
\* a fresh or an old timestamp header, and requests with other signature headers
WebhookRequests ==
    {WebhookReq("msg1", "number", Now, LiteralHexSig(b), b) : b \in Events}
    \cup {WebhookReq("msg1", "number", Now - (threeMinutesInSeconds + 1), LiteralHexSig(b), b) :
            b \in {e \in Events : e.orderId = "o1" /\ Len(e.items) <= 1}}
    \cup {WebhookReq("msg1", "number", Now, sg, Event("payment.succeeded", "o1", "pay1", "c1", <<>>)) :
            sg \in ForgedSigs("msg1", Now, Event("payment.succeeded", "o1", "pay1", "c1", <<>>))}
    \cup {AsText(WebhookReq("msg1", "number", Now, LiteralHexSig(b), b)) : b \in OtherEvents}

Webhook ==
    /\ deployed = "server.js"
    /\ pendingWrites' = pendingWrites
    /\ \E req \in WebhookRequests, storeOk \in BOOLEAN :
          LET r == WebhookResult(req, storeOk)
          IN  Serve("/webhook", req, [storeOk |-> storeOk], r.status, None, 0, <<>>, r.orders, r.products)

\* ------------------------------------------------ part_001: /create-checkout
\* db.collection('orders').add(orderData)
NewOrder001(req) ==
    [NoOrder EXCEPT !.exists = TRUE, !.status = "pending_yoco_payment",
                    !.order_reference = "EazySpaza_Order_" \o NewDocId,
                    !.amount = req.amount.milli]

CreateCheckout001Result(req, answer, store) ==
    LET added == [orders EXCEPT ![NewDocId] = NewOrder001(req)]
        \* the catch block: mark the order (the handler's k-th store call),
        \* answer with the provider's status or 500
        failed(status, k) ==
            [status |-> status, calls |-> 1,
             orders |-> IF store[k] THEN [added EXCEPT ![NewDocId].status = "checkout_failed"]
                        ELSE added]
    IN  IF ~apiKeySet THEN [status |-> 500, calls |-> 0, orders |-> orders]
        ELSE IF Falsy(req.amount) \/ req.currency = None THEN [status |-> 400, calls |-> 0, orders |-> orders]
        ELSE IF ~store[1] THEN [status |-> 500, calls |-> 0, orders |-> orders]
        ELSE IF answer.kind \in {"network", "timeout"} THEN failed(500, 2)
        ELSE IF answer.kind = "http" THEN failed(answer.status, 2)
        ELSE IF ~store[2] THEN failed(500, 3)
        ELSE [status |-> 200, calls |-> 1, orders |-> [added EXCEPT ![NewDocId].checkoutId = NewCheckoutId]]

CreateCheckout001 ==
    /\ deployed = "part_001"
    /\ pendingWrites' = pendingWrites
    /\ FreshDocIds # {} /\ FreshCheckoutIds # {}
    /\ \E call \in CheckoutCalls :
          LET r == CreateCheckout001Result(call.req, call.out.answers[1], call.out.store)
          IN  Serve("/create-checkout", call.req, call.out, r.status, None, r.calls, <<>>, r.orders, products)

\* ------------------------------------------ part_001: /yoco-webhook-receiver
\* the v1 entry of the webhook-signature header; found = FALSE when there is none
SignatureFromHeader(sig) ==
    [found |-> sig.format \in {"v1,", "v1="}, enc |-> sig.enc, mac |-> sig.mac]

\* Buffer.from(text, 'base64').length: 32 bytes for a base64 digest, 48 for 64
\* hex characters read as base64
DecodedLength(enc) == IF enc = "base64" THEN 32 ELSE 48

\* |currentTimestamp - webhookTimestamp| > threeMinutesInSeconds; a timestamp
\* that is no number parses to NaN, and no comparison with NaN is true
OutsideTolerance(req) ==
    /\ req.tsKind = "number"
    /\ (IF Now >= req.ts THEN Now - req.ts ELSE req.ts - Now) > threeMinutesInSeconds

\* status of the response of /yoco-webhook-receiver and the orders it leaves
WebhookReceiverResult(req, storeOk) ==
    LET keep(status) == [status |-> status, orders |-> orders]
        calculatedSignature == Hmac(DecodedSecret, SignedContent(req.id, req.ts, req.body))
        fromHeader == SignatureFromHeader(req.sig)
        event == req.body
    IN  IF webhookSecret = "unset" THEN keep(500)
        ELSE IF webhookSecret = "noprefix" THEN keep(500)
        ELSE IF req.id = None \/ req.tsKind = "none" \/ ~req.sig.given THEN keep(400)
        ELSE IF OutsideTolerance(req) THEN keep(400)
        \* req.rawBody is set by the verify callback of the route's json()
        ELSE IF RequestBody(FALSE, "json", req.contentType) # "object" THEN keep(500)
        ELSE IF ~fromHeader.found THEN keep(400)
        ELSE IF DecodedLength(fromHeader.enc) # 32 THEN keep(403)
        ELSE IF fromHeader.mac # calculatedSignature THEN keep(403)
        ELSE IF event.orderId = None \/ event.paymentId = None THEN keep(200)
        \* JSON.parse(webhookData.payload.metadata.items): webhookData is not
        \* defined, the ReferenceError is caught by the handler's catch
        ELSE IF event.type = "payment.succeeded" THEN keep(500)
        ELSE IF event.type \in {"payment.failed", "payment.cancelled"}
             THEN IF storeOk /\ orders[event.orderId].exists
                  THEN [status |-> 200,
                        orders |-> [orders EXCEPT ![event.orderId] =
                                      [@ EXCEPT !.yocoPaymentId = event.paymentId,
                                                !.status = "payment_failed"]]]
                  ELSE keep(500)
        ELSE keep(200)

\* the requests /yoco-webhook-receiver is sent: the provider's, with fresh,
\* old, early and unreadable timestamps, and requests of others
ReceiverRequests ==
    LET probe == Event("payment.failed", "o1", "pay1", "c1", <<>>)
    IN  {WebhookReq("msg1", "number", Now, ProviderSig("v1,", "msg1", Now, b), b) : b \in Events}
        \cup {WebhookReq("msg1", "number", ts, ProviderSig(f, "msg1", ts, probe), probe) :
                ts \in Timestamps, f \in {"v1,", "v1="}}
        \cup {WebhookReq("msg1", "text", -1, ProviderSig("v1,", "msg1", -1, probe), probe),
              WebhookReq("msg1", "none", -1, ProviderSig("v1,", "msg1", -1, probe), probe),
              WebhookReq(None, "number", Now, ProviderSig("v1,", None, Now, probe), probe)}
        \cup {WebhookReq("msg1", "number", Now, sg, probe) : sg \in ForgedSigs("msg1", Now, probe)}
        \cup {AsText(WebhookReq("msg1", "number", Now, ProviderSig("v1,", "msg1", Now, probe), probe))}

WebhookReceiver ==
    /\ deployed = "part_001"
    /\ pendingWrites' = pendingWrites
    /\ \E req \in ReceiverRequests, storeOk \in BOOLEAN :
          LET r == WebhookReceiverResult(req, storeOk)
          IN  Serve("/yoco-webhook-receiver", req, [storeOk |-> storeOk], r.status, None, 0, <<>>, r.orders, products)

\* ----------------------- part_001: two deliveries handled at the same time
\* The provider sends one payment.succeeded event for a pending order twice
\* at the same time (a retry that overlaps the first attempt). before is the
\* catalog at that moment.
DeliverTwice ==
    /\ deployed = "part_001"
    /\ ~inFlight.sent
    /\ \E b \in SucceededEvents :
          /\ b.orderId # None /\ IsPending(orders[b.orderId])
          /\ inFlight' = [sent |-> TRUE, waiting |-> 2, storeOk |-> TRUE, before |-> products,
                          req |-> WebhookReq("msg1", "number", Now,
                                             ProviderSig("v1,", "msg1", Now, b), b)]
    /\ UNCHANGED <<deployed, webhookSecret, apiKeySet, orders, products, pendingWrites,
                   lastReq, resp, handled>>

\* One of the two handlers runs. Up to db.runTransaction the handler awaits
\* nothing, and the store serialises transactions (a transaction whose reads
\* were overwritten is run again), so the store effects of the two handlers
\* take place one after the other, in either order.
WebhookReceiverConcurrent ==
    /\ deployed = "part_001"
    /\ inFlight.sent /\ inFlight.waiting > 0
    /\ handled < MaxRequests
    /\ \E storeOk \in BOOLEAN :
          LET r == WebhookReceiverResult(inFlight.req, storeOk)
          IN  /\ orders' = r.orders
              /\ lastReq' = [route |-> "/yoco-webhook-receiver", req |-> inFlight.req,
                             env |-> [storeOk |-> storeOk]]
              /\ resp' = [route |-> "/yoco-webhook-receiver", status |-> r.status,
                          shows |-> None, calls |-> 0, details |-> <<>>]
              /\ inFlight' = [inFlight EXCEPT !.waiting = @ - 1, !.storeOk = @ /\ storeOk]
    /\ handled' = handled + 1
    /\ UNCHANGED <<deployed, webhookSecret, apiKeySet, products, pendingWrites>>

\* ------------------------------------------------ part_005: /create-checkout
\* db.collection('orders').add(orderData)
NewOrder005(req) ==
    [NoOrder EXCEPT !.exists = TRUE, !.status = "pending_yoco_payment",
                    !.order_reference = "EazySpaza_Order_" \o NewDocId,
                    !.amount = req.amount.milli]

CreateCheckout005Result(req, answer, store) ==
    LET added == [orders EXCEPT ![NewDocId] = NewOrder005(req)]
        \* the catch block: mark the order (the handler's k-th store call;
        \* a failure of the mark is only logged), answer 500
        failed(k) ==
            [status |-> 500, calls |-> 1,
             orders |-> IF store[k] THEN [added EXCEPT ![NewDocId].status = "checkout_failed"]
                        ELSE added]
    IN  IF ~apiKeySet THEN [status |-> 500, calls |-> 0, orders |-> orders]
        ELSE IF Falsy(req.amount) \/ req.currency = None
             THEN [status |-> 400, calls |-> 0, orders |-> orders]
        ELSE IF ~store[1] THEN [status |-> 500, calls |-> 0, orders |-> orders]
        ELSE IF answer.kind \in {"network", "timeout", "http"} THEN failed(2)
        ELSE IF ~store[2] THEN failed(3)
        ELSE [status |-> 200, calls |-> 1,
              orders |-> [added EXCEPT ![NewDocId].checkoutId = NewCheckoutId]]

CreateCheckout005 ==
    /\ deployed = "part_005"
    /\ pendingWrites' = pendingWrites
    /\ FreshDocIds # {} /\ FreshCheckoutIds # {}
    /\ \E call \in CheckoutCalls :
          LET r == CreateCheckout005Result(call.req, call.out.answers[1], call.out.store)
          IN  Serve("/create-checkout", call.req, call.out, r.status, None, r.calls, <<>>, r.orders, products)

\* ------------------------------------------ part_005: /yoco-webhook-receiver
\* No header is read. The order update: doc(undefined) and a field that is
\* undefined throw, update fails on a missing document.
WebhookReceiver005Result(req, storeOk) ==
    LET keep(status) == [status |-> status, orders |-> orders]
        event == req.body
    IN  \* json() is installed for every route; a body it does not parse
        \* leaves req.body = {}
        IF RequestBody(TRUE, "none", req.contentType) # "object" THEN keep(200)
        ELSE IF event.type # "payment.succeeded" THEN keep(200)
        ELSE IF event.orderId = None \/ event.paymentId = None THEN keep(500)
        ELSE IF ~storeOk \/ ~orders[event.orderId].exists THEN keep(500)
        ELSE [status |-> 200,
              orders |-> [orders EXCEPT ![event.orderId] =
                            [@ EXCEPT !.status = "paid",
                                      !.yocoPaymentId = event.paymentId]]]

\* events with at most one line item
SmallEvents == {e \in Events : Len(e.items) <= 1}

\* the requests sent to a receiver that verifies nothing: the provider's, some
\* with an old timestamp, requests of others, and one that is no JSON
OpenReceiverRequests ==
    LET probe == Event("payment.succeeded", "o1", "pay1", "c1", OneItem)
    IN  {WebhookReq("msg1", "number", Now, ProviderSig("v1,", "msg1", Now, b), b) :
            b \in SmallEvents}
        \cup {WebhookReq("msg1", "number", Now - (threeMinutesInSeconds + 1),
                         ProviderSig("v1,", "msg1", Now - (threeMinutesInSeconds + 1), probe), probe)}
        \cup {WebhookReq("msg1", "number", Now, sg, probe) : sg \in ForgedSigs("msg1", Now, probe)}
        \cup {AsText(WebhookReq("msg1", "number", Now, ProviderSig("v1,", "msg1", Now, probe), probe))}

WebhookReceiver005 ==
    /\ deployed = "part_005"
    /\ pendingWrites' = pendingWrites
    /\ \E req \in OpenReceiverRequests, storeOk \in BOOLEAN :
          LET r == WebhookReceiver005Result(req, storeOk)
          IN  Serve("/yoco-webhook-receiver", req, [storeOk |-> storeOk], r.status, None, 0, <<>>, r.orders, products)

\* the redirect pages of part_005: static texts
StaticPage005 ==
    /\ deployed = "part_005"
    /\ pendingWrites' = pendingWrites
    /\ \E page \in {"success", "cancel", "failure"}, q \in RedirectQueries :
          Serve("/yoco-payment-" \o page, q, StoreOk, 200, page, 0, <<>>, orders, products)

\* ------------------------------------------------ part_004: /create-checkout
\* The request body is not read. The provider's answer is parsed whatever its
\* status is; an answer without id makes the update of yocoCheckoutId throw.
CreateCheckout004Result(answer, store) ==
    LET added == [orders EXCEPT ![NewDocId] =
                    [NoOrder EXCEPT !.exists = TRUE, !.status = "pending",
                                    !.amountInCents = 6499]]
    IN  IF ~store[1] THEN [status |-> 500, calls |-> 0, orders |-> orders]
        ELSE IF answer.kind \in {"network", "timeout", "http"} \/ ~store[2]
             THEN [status |-> 500, calls |-> 1, orders |-> added]
        ELSE [status |-> 200, calls |-> 1,
              orders |-> [added EXCEPT ![NewDocId].checkoutId = NewCheckoutId]]

CreateCheckout004 ==
    /\ deployed = "part_004"
    /\ pendingWrites' = pendingWrites
    /\ FreshDocIds # {} /\ FreshCheckoutIds # {}
    /\ \E call \in CheckoutCalls :
          LET r == CreateCheckout004Result(call.out.answers[1], call.out.store)
          IN  Serve("/create-checkout", call.req, call.out, r.status, None, r.calls, <<>>, r.orders, products)

\* ------------------------------------------ part_004: /yoco-webhook-receiver
\* db.collection("orders").doc(orderId).update({ status: "paid" }) is started
\* and not awaited: the write is in flight when the response is sent.
WebhookReceiver004Result(req) ==
    LET body == req.body
    IN  \* JSON.parse(req.rawBody): rawBody is set by the verify callback
        IF RequestBody(TRUE, "none", req.contentType) # "object"
        THEN [status |-> 400, started |-> {}]
        ELSE IF body.type = "payment.succeeded" /\ body.orderId # None
        THEN [status |-> 200, started |-> {[doc |-> body.orderId, status |-> "paid"]}]
        ELSE [status |-> 200, started |-> {}]

WebhookReceiver004 ==
    /\ deployed = "part_004"
    /\ \E req \in OpenReceiverRequests :
          LET r == WebhookReceiver004Result(req)
          IN  /\ pendingWrites' = pendingWrites \cup r.started
              /\ Serve("/yoco-webhook-receiver", req, StoreOk, r.status, None, 0, <<>>, orders, products)

\* a write in flight settles: the store applies it, or rejects it (the
\* document is missing, the store is unavailable); nobody handles the rejection
OrderUpdateSettles ==
    /\ deployed = "part_004"
    /\ \E w \in pendingWrites, storeOk \in BOOLEAN :
          /\ pendingWrites' = pendingWrites \ {w}
          /\ orders' = IF storeOk /\ orders[w.doc].exists
                       THEN [orders EXCEPT ![w.doc].status = w.status]
                       ELSE orders
    /\ UNCHANGED <<deployed, webhookSecret, apiKeySet, products, lastReq, resp, handled,
                   inFlight>>

\* the success page of part_004: a static text that echoes the orderId of
\* the query to the embedding view
StaticPage004 ==
    /\ deployed = "part_004"
    /\ pendingWrites' = pendingWrites
    /\ \E q \in RedirectQueries :
          Serve("/yoco-payment-success", q, StoreOk, 200, "success", 0, <<>>, orders, products)

\* ======================= server.js (first file): the first application
\* /create-checkout: everything runs in one try block whose catch answers 500
\* and leaves the order as it is. axios throws on an error status and when
\* the provider does not answer.
CreateCheckoutFirstResult(req, answer, store) ==
    LET added == [orders EXCEPT ![NewDocId] =
                    [NoOrder EXCEPT !.exists = TRUE, !.status = "pending",
                                    !.amount = req.amount.milli]]
    IN  IF Falsy(req.amount) THEN [status |-> 400, calls |-> 0, orders |-> orders]
        ELSE IF ~store[1] THEN [status |-> 500, calls |-> 0, orders |-> orders]
        ELSE IF answer.kind \in {"network", "timeout", "http"} \/ ~store[2]
             THEN [status |-> 500, calls |-> 1, orders |-> added]
        ELSE [status |-> 200, calls |-> 1,
              orders |-> [added EXCEPT ![NewDocId].checkoutId = NewCheckoutId]]

CreateCheckoutFirst ==
    /\ deployed = "server.js#1"
    /\ pendingWrites' = pendingWrites
    /\ FreshDocIds # {} /\ FreshCheckoutIds # {}
    /\ \E call \in CheckoutCalls :
          LET r == CreateCheckoutFirstResult(call.req, call.out.answers[1], call.out.store)
          IN  Serve("/create-checkout", call.req, call.out, r.status, None, r.calls, <<>>, r.orders, products)

\* /yoco-webhook-receiver: express.json() is installed for every route and
\* express.raw of the route comes after it; req.body.toString() of anything
\* but a Buffer is no JSON and the catch answers 400. doc(undefined) throws,
\* update fails on a missing document.
WebhookReceiverFirstResult(req, storeOk) ==
    LET keep(status) == [status |-> status, orders |-> orders]
        event == req.body
    IN  IF RequestBody(TRUE, "raw", req.contentType) # "buffer" THEN keep(400)
        ELSE IF event.type # "payment.succeeded" THEN keep(200)
        ELSE IF event.orderId = None \/ ~storeOk \/ ~orders[event.orderId].exists THEN keep(400)
        ELSE [status |-> 200,
              orders |-> [orders EXCEPT ![event.orderId] =
                            \* amount: event.payload.amount, the cents as a number
                            [@ EXCEPT !.status = "paid", !.amount = event.amount * 1000]]]

WebhookReceiverFirst ==
    /\ deployed = "server.js#1"
    /\ pendingWrites' = pendingWrites
    /\ \E req \in OpenReceiverRequests, storeOk \in BOOLEAN :
          LET r == WebhookReceiverFirstResult(req, storeOk)
          IN  Serve("/yoco-webhook-receiver", req, [storeOk |-> storeOk], r.status, None, 0, <<>>, r.orders, products)

\* the redirect pages: static texts
StaticPageFirst ==
    /\ deployed = "server.js#1"
    /\ pendingWrites' = pendingWrites
    /\ \E page \in {"success", "cancel", "failure"}, q \in RedirectQueries :
          Serve("/yoco-payment-" \o page, q, StoreOk, 200, page, 0, <<>>, orders, products)

\* ============================== backend/server.js (Firebase-integrated)
\* YOCO_CONFIG
MIN_AMOUNT_CENTS == 500
MAX_AMOUNT_CENTS == 10000000
RETRY_ATTEMPTS == 2

\* snapshot.docs[0] of a query: the first matching document
FirstDoc(found) == CHOOSE d \in found : found = {d} \/ d = "o1"

\* the data spread into an update: the status field it carries, if any, and
\* the transaction id
AdditionalData(status, transaction_id) ==
    [status |-> status, transaction_id |-> transaction_id]

\* updateOrderStatus: the orders after it. updateData is
\*   { status: status, updated_at, ...additionalData }
\* so a status field of additionalData replaces the status argument.
updateOrderStatus(checkoutId, status, additionalData) ==
    LET found == {d \in DocIds : orders[d].exists /\ orders[d].checkoutId = checkoutId}
        written == IF additionalData.status # None THEN additionalData.status ELSE status
    IN  IF found = {} THEN orders
        ELSE [orders EXCEPT ![FirstDoc(found)] =
                [@ EXCEPT !.status = written,
                          !.yocoPaymentId = IF additionalData.transaction_id # None
                                            THEN additionalData.transaction_id ELSE @]]

\* getOrderByReference: the document id found, or None
getOrderByReference(orderReference) ==
    LET found == {d \in DocIds : orders[d].exists /\ orders[d].order_reference = orderReference}
    IN  IF found = {} THEN None ELSE FirstDoc(found)

\* verifyYocoPayment: the status of what the provider's lookups return, None
\* when they return nothing (not found, not authorised, unreachable)
PaymentLookups == {None, "successful", "created", "failed"}
verifyYocoPayment(lookup) == IF apiKeySet THEN lookup ELSE None

\* /^[A-Z]{3}$/.test(currency)
IsThreeUpperLetters(currency) == currency \in {"ZAR", "USD"}

validateCheckoutInput(body) ==
    LET missingFields ==
            {f \in {"amount"} : Falsy(body.amount)}
            \cup {f \in {"currency"} : body.currency = None}
            \cup {f \in {"successUrl"} : body.successUrl = None}
            \cup {f \in {"cancelUrl"} : body.cancelUrl = None}
        errors ==
            Errors(missingFields # {}, "Missing required fields", missingFields)
            \o Errors(IsNaN(body.amount) \/ body.amount.milli <= 0,
                      "Amount must be a positive number", {"amount"})
            \o Errors(body.successUrl = "bad", "Invalid URL format", {"successUrl"})
            \o Errors(body.cancelUrl = "bad", "Invalid URL format", {"cancelUrl"})
            \o Errors(body.failureUrl = "bad", "Invalid URL format", {"failureUrl"})
            \o Errors(body.currency # None /\ ~IsThreeUpperLetters(body.currency),
                      "Currency must be a 3-letter ISO code (e.g., ZAR)", {"currency"})
    IN  [isValid |-> errors = <<>>, errors |-> errors]

\* a loop that repeats the call until the provider answers, however many
\* calls that takes
RECURSIVE RetryUntilAnswered(_, _)
RetryUntilAnswered(answers, attempt) ==
    IF attempt > Len(answers)
    THEN [responded |-> FALSE, answer |-> Unreachable, calls |-> Len(answers)]
    ELSE IF answers[attempt].kind \in {"network", "timeout"}
         THEN RetryUntilAnswered(answers, attempt + 1)
         ELSE [responded |-> TRUE, answer |-> answers[attempt], calls |-> attempt]

\* a loop that would also repeat a call the provider answered with an error
\* status
RECURSIVE RetryEveryFailure(_, _)
RetryEveryFailure(answers, attempt) ==
    IF attempt > RETRY_ATTEMPTS
    THEN [responded |-> FALSE, answer |-> Unreachable, calls |-> RETRY_ATTEMPTS]
    ELSE IF answers[attempt].kind \in {"network", "timeout", "http"}
            /\ attempt < RETRY_ATTEMPTS
         THEN RetryEveryFailure(answers, attempt + 1)
         ELSE [responded |-> TRUE, answer |-> answers[attempt], calls |-> attempt]

\* the retry loop around makeYocoRequest: a call that throws (no connection,
\* or the abort of the call after API_TIMEOUT_MS) is repeated until
\* RETRY_ATTEMPTS calls were made
RECURSIVE RetryLoop(_, _)
RetryLoop(answers, attempt) ==
    IF attempt > RETRY_ATTEMPTS
    THEN [responded |-> FALSE, answer |-> Unreachable, calls |-> RETRY_ATTEMPTS]
    ELSE IF answers[attempt].kind \in {"network", "timeout"}
         THEN RetryLoop(answers, attempt + 1)
         ELSE [responded |-> TRUE, answer |-> answers[attempt], calls |-> attempt]

\* ------------------------------------- backend/server.js: /create-checkout
CreateCheckoutBackendResult(req, answers, store) ==
    LET validation == validateCheckoutInput(req)
        amountInCents == AmountInCents(req.amount)
        orderReference == IF req.order_reference # None THEN req.order_reference
                          ELSE "ORDER_" \o NewDocId
        yocoResponse == RetryLoop(answers, 1)
        \* retry: the body carries retry_recommended: true
        reject(status, calls, retry) ==
            [status |-> status, calls |-> calls, details |-> <<>>, orders |-> orders,
             shows |-> IF retry THEN "retry_recommended" ELSE None]
        orderData == [NoOrder EXCEPT !.exists = TRUE, !.status = "pending",
                                     !.order_reference = orderReference,
                                     !.amountInCents = amountInCents,
                                     !.amount = req.amount.milli,
                                     !.checkoutId = NewCheckoutId]
    IN  IF ~validation.isValid
        THEN [status |-> 400, calls |-> 0, details |-> validation.errors, orders |-> orders,
              shows |-> None]
        ELSE IF amountInCents < MIN_AMOUNT_CENTS THEN reject(400, 0, FALSE)
        ELSE IF amountInCents > MAX_AMOUNT_CENTS THEN reject(400, 0, FALSE)
        ELSE IF ~apiKeySet THEN reject(500, 0, FALSE)
        ELSE IF ~yocoResponse.responded THEN reject(503, yocoResponse.calls, TRUE)
        ELSE IF yocoResponse.answer.kind = "http"
             THEN reject(IF yocoResponse.answer.status >= 500 THEN 503 ELSE 400,
                         yocoResponse.calls, yocoResponse.answer.status >= 500)
        ELSE IF yocoResponse.answer.kind = "noRedirectUrl"
             THEN reject(500, yocoResponse.calls, FALSE)
        \* storeOrder: a failure is logged, the response is the same
        ELSE [status |-> 200, calls |-> yocoResponse.calls, details |-> <<>>, shows |-> None,
              orders |-> IF store[1] THEN [orders EXCEPT ![NewDocId] = orderData]
                         ELSE orders]

\* a create-checkout that would record the order before it looks at the
\* request, so that a rejected request leaves an order behind
CreateCheckoutBackendStoringFirst ==
    /\ deployed = "backend/server.js"
    /\ pendingWrites' = pendingWrites
    /\ FreshDocIds # {} /\ FreshCheckoutIds # {}
    /\ \E call \in CheckoutCalls :
          LET r == CreateCheckoutBackendResult(call.req, call.out.answers, call.out.store)
          IN  Serve("/create-checkout", call.req, call.out, r.status, r.shows, r.calls, r.details,
                    [r.orders EXCEPT ![NewDocId] =
                        IF @.exists THEN @
                        ELSE [NoOrder EXCEPT !.exists = TRUE, !.status = "pending"]],
                    products)

CreateCheckoutBackend ==
    /\ deployed = "backend/server.js"
    /\ pendingWrites' = pendingWrites
    /\ FreshDocIds # {} /\ FreshCheckoutIds # {}
    /\ \E call \in CheckoutCalls :
          LET r == CreateCheckoutBackendResult(call.req, call.out.answers, call.out.store)
          IN  Serve("/create-checkout", call.req, call.out, r.status, r.shows, r.calls, r.details,
                    r.orders, products)

\* ----------------------------------------- backend/server.js: /yoco-webhook
\* handlePaymentSuccess, handlePaymentFailure, handlePaymentCancellation: the
\* order is looked up by data.checkoutId || data.id; a query for undefined throws
HandlePayment(event, status, storeOk) ==
    LET checkoutId == IF event.checkoutId # None THEN event.checkoutId ELSE event.paymentId
        transaction_id == IF status = "completed" THEN event.paymentId ELSE None
    IN  IF checkoutId = None \/ ~storeOk
        THEN [threw |-> TRUE, orders |-> orders]
        ELSE [threw |-> FALSE,
              orders |-> updateOrderStatus(checkoutId, status,
                                           AdditionalData(None, transaction_id))]

\* status of the response of /yoco-webhook and the orders it leaves
YocoWebhookResult(req, storeOk) ==
    LET keep(status) == [status |-> status, orders |-> orders]
        \* express.json() is installed for every route, express.raw of the
        \* route comes after it
        body == RequestBody(TRUE, "raw", req.contentType)
        expectedSignature == Hmac(LiteralSecret, BodyOnly(req.body))
        signatureEqual == /\ req.sig.format = "bare" /\ req.sig.enc = "hex"
                          /\ req.sig.mac = expectedSignature
        event == req.body
        handled_ == HandlePayment(event,
                                  CASE event.type = "payment.succeeded" -> "completed"
                                    [] event.type = "payment.failed" -> "failed"
                                    [] OTHER -> "cancelled",
                                  storeOk)
    IN  \* createHmac(...).update(req.body) throws unless req.body is a Buffer
        IF webhookSecret # "unset" /\ req.sig.given /\ body # "buffer" THEN keep(500)
        ELSE IF webhookSecret # "unset" /\ req.sig.given /\ ~signatureEqual THEN keep(401)
        \* JSON.parse(req.body.toString()) throws on "[object Object]"
        ELSE IF body # "buffer" THEN keep(500)
        ELSE IF event.type \notin {"payment.succeeded", "payment.failed", "payment.cancelled"}
             THEN keep(200)
        ELSE IF handled_.threw THEN keep(500)
        ELSE [status |-> 200, orders |-> handled_.orders]

\* the requests /yoco-webhook is sent: events about every checkout, signed the
\* way it expects, unsigned, or signed by others, as JSON and as text
YocoWebhookRequests ==
    LET events == {Event(t, None, pid, c, <<>>) :
                      t \in {"payment.succeeded", "payment.failed", "payment.cancelled",
                             "payment.refunded"},
                      pid \in {"pay1", None}, c \in {"c1", None}}
        probe == Event("payment.succeeded", None, "pay1", "c1", <<>>)
        signed == {WebhookReq("msg1", "number", Now, LiteralHexSig(b), b) : b \in events}
        others == {WebhookReq("msg1", "number", Now, sg, probe) : sg \in ForgedSigs("msg1", Now, probe)}
    IN  signed \cup others \cup {AsText(r) : r \in others}

YocoWebhook ==
    /\ deployed = "backend/server.js"
    /\ pendingWrites' = pendingWrites
    /\ \E req \in YocoWebhookRequests, storeOk \in BOOLEAN :
          LET r == YocoWebhookResult(req, storeOk)
          IN  Serve("/yoco-webhook", req, [storeOk |-> storeOk], r.status, None, 0, <<>>, r.orders, products)

\* ------------------------------------ backend/server.js: the redirect routes
\* the query of a redirect visit and what the collaborators do during it: the
\* provider's answers to the lookups, in order, and whether the store works
BackendVisits ==
    [checkoutId : CheckoutIds \cup {None},
     order_reference : {"o1", "ORDER_o1", None},
     lookups : {<<a, a>> : a \in PaymentLookups} \cup {<<None, a>> : a \in PaymentLookups},
     storeOk : BOOLEAN]

\* paymentDetails.status === 'successful' || paymentDetails.status === 'created'
Confirmed(paymentDetails) == paymentDetails \in {"successful", "created"}

\* the fallback by order reference, shared by /yoco-payment-success and
\* /success: found = TRUE when it confirmed the payment and updated the order
ByReference(visit) ==
    LET order == getOrderByReference(visit.order_reference)
        paymentDetails == verifyYocoPayment(visit.lookups[2])
    IN  IF /\ visit.order_reference # None /\ visit.storeOk /\ order # None
           /\ orders[order].checkoutId # None /\ Confirmed(paymentDetails)
        THEN [found |-> TRUE,
              orders |-> updateOrderStatus(orders[order].checkoutId, "completed",
                                           AdditionalData(paymentDetails, None))]
        ELSE [found |-> FALSE, orders |-> orders]

\* /yoco-payment-success: every path ends in a redirect to
\* payment-success.html?status=success
YocoPaymentSuccessResult(visit) ==
    LET paymentDetails == verifyYocoPayment(visit.lookups[1])
    IN  IF visit.checkoutId # None /\ Confirmed(paymentDetails)
        THEN [status |-> 302, shows |-> "success",
              orders |-> IF visit.storeOk
                         THEN updateOrderStatus(visit.checkoutId, "completed",
                                                AdditionalData(paymentDetails, None))
                         ELSE orders]
        ELSE [status |-> 302, shows |-> "success", orders |-> ByReference(visit).orders]

YocoPaymentSuccess ==
    /\ deployed = "backend/server.js"
    /\ pendingWrites' = pendingWrites
    /\ \E visit \in BackendVisits :
          LET r == YocoPaymentSuccessResult(visit)
          IN  Serve("/yoco-payment-success", visit, [storeOk |-> visit.storeOk], r.status, r.shows, 0, <<>>,
                    r.orders, products)

\* /yoco-payment-cancel and /yoco-payment-failure: the order of the reference
\* is set to status; a store error is logged
RedirectUpdate(visit, status) ==
    LET order == getOrderByReference(visit.order_reference)
    IN  IF /\ visit.order_reference # None /\ visit.storeOk /\ order # None
           /\ orders[order].checkoutId # None
        THEN updateOrderStatus(orders[order].checkoutId, status, AdditionalData(None, None))
        ELSE orders

\* a cancel route that would also put a unit of every product back on the
\* shelf, which the route of the file does not do
YocoPaymentCancelRestocking ==
    /\ deployed = "backend/server.js"
    /\ pendingWrites' = pendingWrites
    /\ \E visit \in {v \in BackendVisits : v.lookups = <<None, None>>} :
          Serve("/yoco-payment-cancel", visit, [storeOk |-> visit.storeOk], 302, "cancelled", 0, <<>>,
                RedirectUpdate(visit, "cancelled"),
                [p \in ProductIds |-> [products[p] EXCEPT !.stock = @ + 1]])

YocoPaymentCancel ==
    /\ deployed = "backend/server.js"
    /\ pendingWrites' = pendingWrites
    /\ \E visit \in {v \in BackendVisits : v.lookups = <<None, None>>} :
          Serve("/yoco-payment-cancel", visit, [storeOk |-> visit.storeOk], 302, "cancelled", 0, <<>>,
                RedirectUpdate(visit, "cancelled"), products)

YocoPaymentFailure ==
    /\ deployed = "backend/server.js"
    /\ pendingWrites' = pendingWrites
    /\ \E visit \in {v \in BackendVisits : v.lookups = <<None, None>>} :
          Serve("/yoco-payment-failure", visit, [storeOk |-> visit.storeOk], 302, "failed", 0, <<>>,
                RedirectUpdate(visit, "failed"), products)

\* /success
SuccessResult(visit) ==
    LET paymentDetails == verifyYocoPayment(visit.lookups[1])
        byReference == ByReference(visit)
    IN  IF visit.checkoutId # None
        THEN IF ~Confirmed(paymentDetails)
             THEN [status |-> 302, shows |-> "failed", orders |-> orders]
             ELSE IF ~visit.storeOk
             THEN [status |-> 500, shows |-> None, orders |-> orders]
             ELSE [status |-> 302, shows |-> "success",
                   orders |-> updateOrderStatus(visit.checkoutId, "completed",
                                                AdditionalData(paymentDetails, None))]
        ELSE IF byReference.found
        THEN [status |-> 302, shows |-> "success", orders |-> byReference.orders]
        ELSE [status |-> 400, shows |-> None, orders |-> orders]

Success ==
    /\ deployed = "backend/server.js"
    /\ pendingWrites' = pendingWrites
    /\ \E visit \in BackendVisits :
          LET r == SuccessResult(visit)
          IN  Serve("/success", visit, [storeOk |-> visit.storeOk], r.status, r.shows, 0, <<>>, r.orders, products)

NextPart001 ==
    \/ CreateCheckout001
    \/ WebhookReceiver

InitPart001 == InitOf("part_001", {"unset", "noprefix", "ok"}, FullCatalog)

SpecPart001 == InitPart001 /\ [][NextPart001]_vars

NextPart001Concurrent ==
    \/ CreateCheckout001
    \/ DeliverTwice
    \/ WebhookReceiverConcurrent

SpecPart001Concurrent == InitPart001 /\ [][NextPart001Concurrent]_vars

NextServerJs ==
    \/ CreateCheckout
    \/ YocoPaymentPage
    \/ Webhook

InitServerJs == InitOf("server.js", {"unset", "ok"}, Catalogs)

SpecServerJs == InitServerJs /\ [][NextServerJs]_vars

NextPart005 ==
    \/ CreateCheckout005
    \/ WebhookReceiver005
    \/ StaticPage005

InitPart005 == InitOf("part_005", {"unset", "ok"}, Catalogs)

SpecPart005 == InitPart005 /\ [][NextPart005]_vars

NextPart004 ==
    \/ CreateCheckout004
    \/ WebhookReceiver004
    \/ OrderUpdateSettles
    \/ StaticPage004

InitPart004 == InitOf("part_004", {"unset", "ok"}, FullCatalog)

SpecPart004 == InitPart004 /\ [][NextPart004]_vars

NextServerJsFirst ==
    \/ CreateCheckoutFirst
    \/ WebhookReceiverFirst
    \/ StaticPageFirst

InitServerJsFirst == InitOf("server.js#1", {"unset", "ok"}, FullCatalog)

SpecServerJsFirst == InitServerJsFirst /\ [][NextServerJsFirst]_vars

NextBackend ==
    \/ CreateCheckoutBackend
    \/ YocoWebhook
    \/ YocoPaymentSuccess
    \/ YocoPaymentCancel
    \/ YocoPaymentFailure
    \/ Success

InitBackend == InitOf("backend/server.js", {"unset", "ok"}, FullCatalog)

SpecBackend == InitBackend /\ [][NextBackend]_vars

\* ------------------------------------------- the reconciliation transactions
\* One call on the transaction object: get, getAll, set or update, and the
\* collection of the documents it names.
Call(op, collection) == [op |-> op, collection |-> collection]

\* the writes of the loop over productDocsSnapshots: one update for every
\* snapshot that exists and has a numeric stock
productUpdates(ops) ==
    [i \in 1..Len(SelectSeq(ops, LAMBDA op : products[op.id].exists /\ products[op.id].hasStock))
        |-> Call("update", "products")]

\* the calls of a transaction function that reads and writes each product in
\* one pass of a loop over the line items, after it read the order and before
\* it writes the order
loopCalls(event) ==
    <<Call("get", "orders")>>
    \o [i \in 1..(2 * Len(event.items)) |->
            IF i % 2 = 1 THEN Call("get", "products") ELSE Call("update", "products")]
    \o <<Call("update", "orders")>>

\* The calls the transaction function of /webhook makes, in the order it makes
\* them: the order is read, the products are read with one getAll, then the
\* order is written and then the stock of each product. A set or update
\* with an undefined field throws, which ends the function.
transactionCalls(event) ==
    LET ops == productReadOperations(event.items)
        reads == <<Call("get", "orders")>>
                 \o (IF Len(ops) > 0 THEN <<Call("getAll", "products")>> ELSE <<>>)
        orderWrite == <<Call(IF orders[event.orderId].exists THEN "update" ELSE "set", "orders")>>
    IN  IF event.paymentId = None \/ event.checkoutId = None
        THEN reads \o orderWrite
        ELSE reads \o orderWrite \o productUpdates(ops)

\* The calls the transaction function of part_001 makes: the order is read;
\* a missing order has no data() and an order that is payment_succeeded
\* returns; the loop is over orderItems, a name the file declares nowhere, so
\* evaluating it throws before any product is read or written.
transactionCalls001(event) == <<Call("get", "orders")>>

\* the events a transaction function is run for: payment.succeeded events
\* that name an order
TransactionEvents == {e \in SucceededEvents \cup IncompleteEvents : e.orderId # None}

\* db.runTransaction(async (transaction) => ...) of /webhook, on its own
RunTransaction ==
    /\ deployed = "runTransaction"
    /\ pendingWrites' = pendingWrites
    /\ \E event \in TransactionEvents, storeOk \in BOOLEAN :
          LET txn == WebhookTransaction(event, storeOk)
          IN  Serve("runTransaction", event, [storeOk |-> storeOk],
                    IF txn.committed THEN 200 ELSE 500, None, 0,
                    transactionCalls(event), txn.orders, txn.products)

\* db.runTransaction(async (transaction) => ...) of part_001, on its own
RunTransaction001 ==
    /\ deployed = "runTransaction"
    /\ pendingWrites' = pendingWrites
    /\ \E event \in TransactionEvents :
          Serve("runTransaction001", event, StoreOk, 500, None, 0,
                transactionCalls001(event), orders, products)

NextTransaction == RunTransaction \/ RunTransaction001
SpecTransaction == InitOf("runTransaction", {"ok"}, Catalogs) /\ [][NextTransaction]_vars

\* ------------------------------------------------------- importProducts.js
\* the product cards of groceries.html with id, name, price and image, in the
\* order of the page
HtmlProducts == {<<"p1">>, <<"p2">>, <<"p1", "p2">>, <<"p2", "p1">>}

\* importProducts(): one set per card, in order; the first set that throws
\* ends the loop (written: the number of sets that succeeded). set() writes
\* the id, name, description, price and imageUrl of the card and nothing else,
\* and without merge it replaces the document: no stock field is left.
importProducts ==
    /\ pendingWrites' = pendingWrites
    /\ \E html \in HtmlProducts :
          \E written \in 0..Len(html) :
              Serve("importProducts", html, [written |-> written], 0, None, 0, <<>>, orders,
                    [p \in ProductIds |->
                        IF \E i \in 1..written : html[i] = p
                        THEN [exists |-> TRUE, hasStock |-> FALSE, stock |-> 0]
                        ELSE products[p]])

\* part_001 and the catalog import, which work on the same store
NextPart001Import ==
    \/ CreateCheckout001
    \/ WebhookReceiver
    \/ importProducts

SpecPart001Import == InitPart001 /\ [][NextPart001Import]_vars

\* ------------------------------------------ part_001 under redelivery
\* The provider delivers payment.succeeded for an order whose checkout was
\* paid, and delivers it again as long as the last delivery was not answered
\* with 200. The store works. attempt is the parity of the delivery, and
\* handled counts up to MaxRequests, which keeps the run finite-state.
Redeliver ==
    /\ deployed = "part_001"
    /\ \E d \in DocIds :
          LET b == Event("payment.succeeded", d, "pay1", orders[d].checkoutId, OneItem)
              req == WebhookReq("msg1", "number", Now, ProviderSig("v1,", "msg1", Now, b), b)
              r == WebhookReceiverResult(req, TRUE)
              delivered == lastReq.route = "/yoco-webhook-receiver" /\ lastReq.req = req
              attempt == IF delivered THEN 3 - lastReq.env.attempt ELSE 1
          IN  /\ orders[d].exists /\ orders[d].checkoutId # None
              /\ IsPending(orders[d]) \/ delivered
              /\ ~(delivered /\ resp.status = 200)
              /\ lastReq' = [route |-> "/yoco-webhook-receiver", req |-> req,
                             env |-> [storeOk |-> TRUE, attempt |-> attempt]]
              /\ resp' = [route |-> "/yoco-webhook-receiver", status |-> r.status,
                          shows |-> None, calls |-> 0, details |-> <<>>]
              /\ orders' = r.orders
    /\ handled' = IF handled < MaxRequests THEN handled + 1 ELSE handled
    /\ UNCHANGED <<deployed, webhookSecret, apiKeySet, products, pendingWrites, inFlight>>

NextPart001Redelivery ==
    \/ CreateCheckout001
    \/ Redeliver

\* the provider keeps delivering: a delivery that is due is made
SpecPart001Redelivery ==
    InitPart001 /\ [][NextPart001Redelivery]_vars /\ WF_vars(Redeliver)

\* ================================================================ properties
WebhookRoutes == {"/yoco-webhook-receiver", "/webhook", "/yoco-webhook"}
RedirectRoutes == {"/yoco-payment-success", "/yoco-payment-cancel", "/yoco-payment-failure",
                   "/success"}

\* this step is a handler run of one of the routes
Handles(routes) == handled' = handled + 1 /\ lastReq'.route \in routes

\* the request is one the payment provider sent just now: its signature is
\* the provider's, over this id, timestamp and body, and the timestamp is
\* within the tolerance
FromProvider(req) ==
    /\ req.contentType = "application/json"
    /\ req.id # None /\ req.tsKind = "number" /\ ~OutsideTolerance(req)
    /\ req.sig \in {ProviderSig(f, req.id, req.ts, req.body) : f \in {"v1,", "v1="}}

\* a payment.succeeded event that names an order, a payment and a checkout
IsSucceeded(event) ==
    /\ event.type = "payment.succeeded"
    /\ event.orderId # None /\ event.paymentId # None /\ event.checkoutId # None

\* the quantity of product p in a list of line items
RECURSIVE Sold(_, _)
Sold(items, p) ==
    IF items = <<>> THEN 0
    ELSE (IF Head(items).id = p THEN Head(items).quantity ELSE 0) + Sold(Tail(items), p)

\* every line item is of an existing product that has the quantity in stock
InStock(items, catalog) ==
    \A i \in 1..Len(items) :
        LET doc == catalog[items[i].id]
        IN  doc.exists /\ doc.hasStock /\ Sold(items, items[i].id) <= doc.stock

\* the catalog with the stock of every product reduced by the quantity sold
Reduced(catalog, items) ==
    [p \in ProductIds |-> [catalog[p] EXCEPT !.stock = @ - Sold(items, p)]]

\* C1: for any order, every delivery of the same verified payment.succeeded
\* webhook is answered with 200 and leaves the order paid; the first one
\* reduces the stock of each product by the quantity sold, every later one
\* changes no order and no product.
C1_EveryDeliveryPaidOnce ==
    [][ LET req == lastReq'.req
            o == req.body.orderId
        IN  (/\ Handles(WebhookRoutes) /\ webhookSecret = "ok"
             /\ FromProvider(req) /\ lastReq'.env.storeOk
             /\ IsSucceeded(req.body)
             /\ (IsPending(orders[o]) \/ IsPaid(orders[o]))
             /\ InStock(req.body.items, products))
            => /\ resp'.status = 200
               /\ IsPaid(orders'[o])
               /\ IF IsPaid(orders[o])
                  THEN orders' = orders /\ products' = products
                  ELSE products' = Reduced(products, req.body.items) ]_vars

\* C2: no product's stock is ever negative, and a payment.succeeded
\* reconciliation in which a line item's quantity exceeds the stock of its
\* product changes no stock, leaves the status of the order as it was, and is
\* answered with 500.
C2_StockNeverNegative ==
    /\ [](\A p \in ProductIds : products[p].stock >= 0)
    /\ [][ LET req == lastReq'.req
               o == req.body.orderId
           IN  (/\ Handles(WebhookRoutes) /\ FromProvider(req)
                /\ IsSucceeded(req.body) /\ IsPending(orders[o])
                /\ \E i \in 1..Len(req.body.items) :
                      LET doc == products[req.body.items[i].id]
                      IN  doc.exists /\ doc.hasStock /\ req.body.items[i].quantity > doc.stock)
               => /\ products' = products
                  /\ orders'[o].status = orders[o].status
                  /\ resp'.status = 500 ]_vars

\* the statuses an order ends in
FinalStatuses == PaidStatuses \cup {"failed", "cancelled", "payment_failed", "checkout_failed"}

\* C3: in every step the status of an order stays the same or goes from
\* pending to one of paid, failed, cancelled; the status of a paid order is
\* never changed again.
C3_StatusOnlyForward ==
    [][ \A d \in DocIds :
            orders[d].exists =>
                \/ orders'[d].status = orders[d].status
                \/ IsPending(orders[d]) /\ orders'[d].status \in FinalStatuses ]_vars

\* C4: a webhook request whose signature was not made with the configured
\* secret over the content it carries (the body was changed, or another
\* secret was used) is answered with 400 or 403, and no order or product
\* document is written while it is handled.
C4_ForgedRejected ==
    [][ LET req == lastReq'.req
        IN  (/\ Handles(WebhookRoutes) /\ webhookSecret = "ok"
             /\ req.sig.given /\ ~SignatureMatches(req))
            => /\ resp'.status \in {400, 403}
               /\ orders' = orders /\ products' = products
               /\ pendingWrites' = pendingWrites ]_vars

\* C5: a webhook request with a valid signature whose timestamp is more than
\* 180 seconds away from the server's clock is answered with 400 and changes
\* no order and no product; a request of the provider within 180 seconds is
\* not answered with 400.
C5_StaleRejected ==
    [][ LET req == lastReq'.req
        IN  /\ (/\ Handles(WebhookRoutes) /\ webhookSecret = "ok"
                /\ SignatureMatches(req) /\ OutsideTolerance(req))
               => /\ resp'.status = 400
                  /\ orders' = orders /\ products' = products
                  /\ pendingWrites' = pendingWrites
            /\ (/\ Handles(WebhookRoutes) /\ webhookSecret = "ok" /\ FromProvider(req))
               => resp'.status # 400 ]_vars

\* C6: a webhook request without the signature header is answered with 400,
\* and no order or product document is written while it is handled.
C6_UnsignedRejected ==
    [][ (Handles(WebhookRoutes) /\ ~lastReq'.req.sig.given)
        => /\ resp'.status = 400
           /\ orders' = orders /\ products' = products
           /\ pendingWrites' = pendingWrites ]_vars

\* C7: when the webhook endpoint answers 200 to a payment.succeeded event for
\* an existing order, the order is paid at the moment of the response and no
\* store write is still in flight.
C7_AnswerAfterCommit ==
    [][ LET event == lastReq'.req.body
        IN  (/\ Handles(WebhookRoutes) /\ resp'.status = 200
             /\ IsSucceeded(event) /\ orders[event.orderId].exists)
            => /\ pendingWrites' = {}
               /\ IsPaid(orders'[event.orderId]) ]_vars

\* C8: one verified payment.succeeded webhook for a pending order whose line
\* items are all of existing products with enough stock ends with the order
\* paid, the stock of each product reduced by the quantity of its line items,
\* and the response 200.
C8_PaidAndStockReduced ==
    [][ LET req == lastReq'.req
            o == req.body.orderId
        IN  (/\ Handles(WebhookRoutes) /\ webhookSecret = "ok"
             /\ FromProvider(req) /\ lastReq'.env.storeOk
             /\ IsSucceeded(req.body) /\ IsPending(orders[o])
             /\ InStock(req.body.items, products))
            => /\ orders'[o].status \in PaidStatuses
               /\ \A p \in ProductIds :
                     products'[p].stock = products[p].stock - Sold(req.body.items, p)
               /\ resp'.status = 200 ]_vars

\* C9: a visit of a success, cancel or failure redirect route changes no
\* order document, whatever the query is.
C9_RedirectsChangeNothing ==
    [][ Handles(RedirectRoutes) => orders' = orders ]_vars

\* the orders a redirect visit refers to, by checkout id or order reference
Referred(visit) ==
    {d \in DocIds :
        /\ orders[d].exists
        /\ \/ visit.checkoutId # None /\ orders[d].checkoutId = visit.checkoutId
           \/ visit.order_reference # None /\ orders[d].order_reference = visit.order_reference}

\* C10: a visit of the success redirect route yields a success outcome only
\* if the payment is confirmed by something other than the visit: the order
\* it refers to is paid already, or the provider reports the payment as
\* successful.
C10_SuccessOnlyIfConfirmed ==
    [][ LET visit == lastReq'.req
        IN  (/\ Handles({"/yoco-payment-success"}) /\ resp'.shows = "success")
            => \/ \E d \in Referred(visit) : IsPaid(orders[d])
               \/ \E i \in 1..2 : verifyYocoPayment(visit.lookups[i]) = "successful" ]_vars

\* an amount that is missing, zero, negative or not a number
BadAmount(amount) == amount.kind \in {"missing", "text"} \/ amount.milli <= 0

\* C11: a create-checkout request whose amount is missing, zero, negative or
\* not a number (the string "0" included) is answered with 400, creates no
\* order and causes no call to the payment provider.
C11_BadAmountRejected ==
    [][ (/\ Handles({"/create-checkout"}) /\ apiKeySet
         /\ BadAmount(lastReq'.req.amount))
        => /\ resp'.status = 400
           /\ orders' = orders
           /\ resp'.calls = 0 ]_vars

\* the fields of a create-checkout request that break a validation rule:
\* the amount, the currency format, each return URL, the line items
FailingFields(req) ==
    {f \in {"amount"} : BadAmount(req.amount)}
    \cup {f \in {"currency"} : ~IsThreeUpperLetters(req.currency)}
    \cup {f \in {"successUrl"} : req.successUrl # "ok"}
    \cup {f \in {"cancelUrl"} : req.cancelUrl # "ok"}
    \cup {f \in {"failureUrl"} : req.failureUrl # "ok"}
    \cup {f \in {"items"} : req.items = <<>>}

\* C12: a create-checkout request that breaks several validation rules at
\* once is answered with 400, and the response lists an error for every
\* failing field, not only for the first rule checked.
C12_EveryFailingFieldNamed ==
    [][ LET req == lastReq'.req
        IN  (Handles({"/create-checkout"}) /\ Cardinality(FailingFields(req)) >= 2)
            => /\ resp'.status = 400
               /\ \A f \in FailingFields(req) :
                     \E i \in 1..Len(resp'.details) : f \in resp'.details[i].fields ]_vars

\* the sum over the line items of quantity times unit price, in thousandths
RECURSIVE Subtotal(_)
Subtotal(items) ==
    IF items = <<>> THEN 0
    ELSE Head(items).quantity * Head(items).price + Subtotal(Tail(items))

\* the orders a step creates
Created == {d \in DocIds : ~orders[d].exists /\ orders'[d].exists}

\* C13: the amount in minor units of every order that create-checkout
\* persists equals the sum over its line items of quantity times unit price;
\* a request whose amount does not match its line items produces no order.
C13_AmountMatchesLineItems ==
    [][ Handles({"/create-checkout"})
        => \A d \in Created :
              /\ orders'[d].amountInCents = AmountInCents(Amount("number", Subtotal(lastReq'.req.items)))
              /\ AmountInCents(lastReq'.req.amount) = orders'[d].amountInCents ]_vars

\* C14: when the call to the payment provider fails during create-checkout
\* after the pending order was persisted, the order is marked failed or is
\* deleted by the time the handler responds: a create-checkout request that
\* ends in an error leaves no order of its own pending.
C14_NoPendingAfterError ==
    [][ (Handles({"/create-checkout"}) /\ resp'.status # 200)
        => \A d \in Created : ~IsPending(orders'[d]) ]_vars

\* C15: whenever create-checkout answers 200, a pending order that carries the
\* session id the provider returned exists in the store at that moment; a
\* failure to persist the order or the session id never ends in a 200.
C15_OrderExistsOn200 ==
    [][ (Handles({"/create-checkout"}) /\ resp'.status = 200)
        => \E d \in DocIds :
              IsPending(orders'[d]) /\ orders'[d].checkoutId = NewCheckoutId ]_vars

\* the orders an event can be matched to: by the order id of its metadata or
\* by its checkout id
OrdersOf(event) ==
    {d \in DocIds :
        /\ orders[d].exists
        /\ \/ d = event.orderId
           \/ event.checkoutId # None /\ orders[d].checkoutId = event.checkoutId}

\* a payment.succeeded webhook that carries a signature made with the
\* configured secret and a timestamp within the tolerance
VerifiedSucceeded(req) ==
    /\ req.contentType = "application/json"
    /\ SignatureMatches(req) /\ ~OutsideTolerance(req)
    /\ req.body.type = "payment.succeeded"
    /\ req.body.paymentId # None /\ req.body.checkoutId # None

\* C16: a verified payment.succeeded webhook whose order cannot be found is
\* answered with an error (not 200) and writes nothing: no order document is
\* created or changed, no stock is changed, no write is started.
C16_MissingOrderFails ==
    [][ LET req == lastReq'.req
        IN  (/\ Handles(WebhookRoutes) /\ VerifiedSucceeded(req)
             /\ OrdersOf(req.body) = {})
            => /\ resp'.status # 200
               /\ orders' = orders /\ products' = products
               /\ pendingWrites' = pendingWrites ]_vars

\* C17: while the webhook-signing secret is unset, or set without the whsec_
\* prefix, every webhook request is answered with 500 and no event is
\* processed: no order and no product is written, no write is started.
C17_NoSecretNoProcessing ==
    [][ (Handles(WebhookRoutes) /\ webhookSecret \in {"unset", "noprefix"})
        => /\ resp'.status = 500
           /\ orders' = orders /\ products' = products
           /\ pendingWrites' = pendingWrites ]_vars

\* C18: when two deliveries of payment.succeeded for the same pending order
\* are handled at the same time, then in whatever order the store serialises
\* them the combined effect is that of one delivery: once both are handled the
\* order is paid and the stock of each product is reduced once by the quantity
\* sold.
C18_ConcurrentDeliveriesOnce ==
    (/\ inFlight.sent /\ inFlight.waiting = 0 /\ inFlight.storeOk
     /\ webhookSecret = "ok"
     /\ InStock(inFlight.req.body.items, inFlight.before))
    => /\ IsPaid(orders[inFlight.req.body.orderId])
       /\ products = Reduced(inFlight.before, inFlight.req.body.items)

\* a line item whose product document is missing or has no valid stock
UnknownStock(items, catalog) ==
    \E i \in 1..Len(items) : ~catalog[items[i].id].exists \/ ~catalog[items[i].id].hasStock

\* C19: in a payment.succeeded reconciliation, if the product of any line item
\* is missing or its stock field is not a valid number, the whole
\* transaction aborts: no stock is changed and the order is not marked paid.
C19_UnknownProductAborts ==
    [][ LET req == lastReq'.req
            o == req.body.orderId
        IN  (/\ Handles(WebhookRoutes) /\ FromProvider(req)
             /\ IsSucceeded(req.body) /\ IsPending(orders[o])
             /\ UnknownStock(req.body.items, products))
            => /\ products' = products
               /\ ~IsPaid(orders'[o])
               /\ pendingWrites' = pendingWrites ]_vars

\* the terminal status of an event type, under the names the server files use
TerminalStatuses(type) ==
    IF type = "payment.failed" THEN {"failed", "payment_failed"}
    ELSE {"cancelled", "payment_cancelled"}

\* C20: a verified payment.failed event sets the status of its order to
\* failed and a verified payment.cancelled event sets it to cancelled, by an
\* update of that one order, and neither changes the stock of any product.
C20_FailedAndCancelled ==
    [][ LET req == lastReq'.req
            o == req.body.orderId
        IN  (/\ Handles(WebhookRoutes) /\ webhookSecret = "ok"
             /\ FromProvider(req) /\ lastReq'.env.storeOk
             /\ req.body.type \in {"payment.failed", "payment.cancelled"}
             /\ req.body.orderId # None /\ req.body.paymentId # None
             /\ IsPending(orders[o]))
            => /\ orders'[o].status \in TerminalStatuses(req.body.type)
               /\ \A d \in DocIds \ {o} : orders'[d] = orders[d]
               /\ products' = products ]_vars

\* the statuses of an order whose payment failed or was cancelled
FailedStatuses == FinalStatuses \ PaidStatuses

\* C21: a payment.succeeded event that arrives for an order whose status is
\* already failed or cancelled does not make the order paid and does not
\* reduce the stock of any product.
C21_FailedOrderStaysFailed ==
    [][ LET req == lastReq'.req
            o == req.body.orderId
        IN  (/\ Handles(WebhookRoutes) /\ FromProvider(req)
             /\ IsSucceeded(req.body)
             /\ orders[o].exists /\ orders[o].status \in FailedStatuses)
            => /\ ~IsPaid(orders'[o])
               /\ products' = products ]_vars

\* no read comes after a write in a list of transaction calls
ReadsBeforeWrites(calls) ==
    \A i \in 1..Len(calls), j \in 1..Len(calls) :
        (i < j /\ calls[i].op \in {"set", "update"}) => calls[j].op \notin {"get", "getAll"}

C23_RedirectsKeepStock ==
    [][ Handles(RedirectRoutes) => products' = products ]_vars

\* three requests were served, the last a redirect visit that marked an order
\* cancelled or failed, and every product has the stock it started with
C23_VisitedWithStockKept ==
    /\ handled = MaxRequests /\ resp.route \in RedirectRoutes
    /\ \E d \in DocIds : orders[d].exists /\ orders[d].status \in {"cancelled", "failed"}
    /\ \A p \in ProductIds : products[p].hasStock /\ products[p].stock = MaxStock

\* every create-session call the handler made failed: no connection, or the
\* call was aborted after the timeout
AllAttemptsFailed ==
    /\ resp'.calls >= 1
    /\ \A i \in 1..resp'.calls : lastReq'.env.answers[i].kind \in {"network", "timeout"}

\* C24: every create-checkout request ends with a response; at most
\* RETRY_ATTEMPTS create-session calls are made for it, and when every call
\* failed (no connection, or aborted after the timeout) the response is 503 or
\* 504 and carries retry_recommended = true.
C24_BoundedRetriesThen503 ==
    [][ Handles({"/create-checkout"})
        => /\ resp'.status \in 200..599
           /\ resp'.calls <= RETRY_ATTEMPTS
           /\ AllAttemptsFailed
              => resp'.status \in {503, 504} /\ resp'.shows = "retry_recommended" ]_vars

\* a create-checkout whose first call found no connection and whose second
\* call timed out: two calls, then 503 with retry_recommended
C24_TwoFailedCalls ==
    /\ resp.route = "/create-checkout" /\ resp.calls = RETRY_ATTEMPTS
    /\ lastReq.env.answers[1].kind = "network" /\ lastReq.env.answers[2].kind = "timeout"
    /\ resp.status = 503 /\ resp.shows = "retry_recommended"

\* C25: one create-checkout request sends at most one create-session call to
\* the payment provider: session creation is not retried by the server.
C25_OneCallPerRequest ==
    [][ Handles({"/create-checkout"}) => resp'.calls <= 1 ]_vars

\* a JSON webhook request that fails the verification: a header is missing,
\* the timestamp is outside the tolerance, or the signature header holds no
\* signature made with the configured secret over this id, timestamp and body
\* (header not parseable, wrong length, wrong digest)
VerificationFails(req) ==
    /\ req.contentType = "application/json"
    /\ \/ req.id = None \/ req.tsKind = "none" \/ ~req.sig.given
       \/ OutsideTolerance(req)
       \/ ~SignatureMatches(req)

\* C26: all webhook verification failures get the same generic response: when
\* two requests in a row fail the verification, whatever the reasons, the
\* second is answered with the status of the first.
C26_FailuresIndistinguishable ==
    [][ (/\ Handles(WebhookRoutes) /\ webhookSecret = "ok"
         /\ VerificationFails(lastReq'.req)
         /\ lastReq.route \in WebhookRoutes
         /\ VerificationFails(lastReq.req))
        => resp'.status = resp.status ]_vars

\* C27: the decimal amount of a create-checkout request is converted to
\* integer minor units by rounding to the nearest cent (64.99 becomes 6499),
\* the amount the order stores is that integer, and no webhook or redirect
\* step changes the amount of an order: it is not divided or multiplied by
\* 100 again.
\* (Amounts are in thousandths here, so c cents are 1000 * c.)
C27_AmountStoredInCents ==
    [][ /\ Handles({"/create-checkout"})
           => \A d \in Created :
                 LET cents == AmountInCents(lastReq'.req.amount)
                     off == 10 * cents - lastReq'.req.amount.milli
                 IN  /\ off \in -5..5
                     /\ orders'[d].amountInCents = cents
                     /\ orders'[d].amount = 1000 * cents
        /\ \A d \in DocIds :
              (~Handles({"/create-checkout"}) /\ orders[d].exists /\ orders'[d].exists)
              => /\ orders'[d].amount = orders[d].amount
                 /\ orders'[d].amountInCents = orders[d].amountInCents ]_vars

\* C28: a create-checkout request whose line-item list is absent or empty is
\* answered with 400, creates or changes no order and causes no call to the
\* payment provider.
C28_NoItemsRejected ==
    [][ (Handles({"/create-checkout"}) /\ apiKeySet /\ lastReq'.req.items = <<>>)
        => /\ resp'.status = 400
           /\ orders' = orders
           /\ resp'.calls = 0 ]_vars

\* C29: when a payment.succeeded event of the provider could not be applied
\* to the store (the transaction aborted, the order or a product is missing,
\* the store failed, the metadata names no order), so that the order is not
\* paid after the handler ran, the response is a 5xx, never a 2xx or a 4xx.
C29_FailureAnswered5xx ==
    [][ LET req == lastReq'.req
            event == req.body
        IN  (/\ Handles(WebhookRoutes) /\ FromProvider(req)
             /\ event.type = "payment.succeeded"
             /\ event.paymentId # None /\ event.checkoutId # None
             /\ (event.orderId = None \/ ~IsPaid(orders'[event.orderId])))
            => resp'.status \in 500..599 ]_vars

\* C30: the stock of a product is written only by the reconciliation of a
\* payment.succeeded webhook: no other operation (checkout creation, redirect
\* visit, failed or cancelled webhook, catalog import) changes or removes the
\* stock field of a product.
C30_OnlyReconcilerWritesStock ==
    [][ (\E p \in ProductIds :
            \/ products'[p].hasStock # products[p].hasStock
            \/ products'[p].stock # products[p].stock)
        => /\ Handles(WebhookRoutes)
           /\ lastReq'.req.body.type = "payment.succeeded" ]_vars

\* C31: a server whose provider secret key or webhook-signing secret is
\* missing never serves the create-checkout or the webhook route: no request
\* to these routes is handled by such a process.
C31_NoServingWithoutSecrets ==
    [][ Handles({"/create-checkout"} \cup WebhookRoutes)
        => apiKeySet /\ webhookSecret # "unset" ]_vars

\* C32: create-checkout changes no order that exists already, and the order
\* it creates has a reference that no existing order has: a request that
\* names the reference of an existing order does not overwrite that order.
C32_ExistingOrderUntouched ==
    [][ Handles({"/create-checkout"})
        => /\ \A d \in DocIds : orders[d].exists => orders'[d] = orders[d]
           /\ \A d \in Created, e \in DocIds :
                 (orders[e].exists /\ orders'[d].order_reference # None)
                 => orders'[d].order_reference # orders[e].order_reference ]_vars

\* C33: if the provider redelivers a payment.succeeded event until it gets a
\* 200, then an order that is pending, with a checkout session and enough
\* stock for its items, is paid eventually.
C33_RedeliveryLeadsToPaid ==
    \A d \in DocIds :
        (/\ webhookSecret = "ok" /\ IsPending(orders[d]) /\ orders[d].checkoutId # None
         /\ InStock(OneItem, products))
        ~> IsPaid(orders[d])

C35_StoredAmountInRange ==
    [][ Handles({"/create-checkout"})
        => /\ \A d \in Created :
                 orders'[d].amountInCents >= 500 /\ orders'[d].amountInCents <= 10000000
           /\ LET cents == (lastReq'.req.amount.milli + 5) \div 10
              IN  (cents < 500 \/ cents > 10000000)
                  => resp'.status = 400 /\ resp'.calls = 0 /\ orders' = orders ]_vars

\* an order of exactly the maximum is stored, and a request one cent above
\* the maximum has then been rejected
C35_MaximumStoredThenExceeded ==
    /\ \E d \in DocIds : orders[d].exists /\ orders[d].amountInCents = 10000000
    /\ resp.route = "/create-checkout" /\ resp.status = 400
    /\ lastReq.req.amount.milli = 100000010

\* C36: when the provider answers a create-session call of the
\* Firebase-integrated create-checkout with a non-success HTTP status, no
\* order is stored and no further call is made; the response is 503 with
\* retry_recommended true when the provider's status is 500 or more, and 400
\* without it otherwise.
C36_ProviderErrorNotRetried ==
    [][ Handles({"/create-checkout"})
        => \A i \in 1..resp'.calls :
              LET answer == lastReq'.env.answers[i]
              IN  answer.kind = "http"
                  => /\ resp'.calls = i
                     /\ orders' = orders
                     /\ IF answer.status >= 500
                        THEN resp'.status = 503 /\ resp'.shows = "retry_recommended"
                        ELSE resp'.status = 400 /\ resp'.shows # "retry_recommended" ]_vars

\* the second call, made after a failed connection, was answered with 401 and
\* the request was answered with 400 after those two calls
C36_ErrorStatusOnSecondCall ==
    /\ resp.route = "/create-checkout" /\ resp.status = 400 /\ resp.calls = 2
    /\ lastReq.env.answers[2].kind = "http" /\ lastReq.env.answers[2].status = 401

\* C37: a webhook that carries a matching signature of the configured secret
\* and whose event type is none of payment.succeeded, payment.failed and
\* payment.cancelled is answered with 200 and changes no order and no product.
C37_OtherTypeAcknowledged ==
    [][ LET req == lastReq'.req
        IN  (/\ Handles(WebhookRoutes) /\ webhookSecret = "ok"
             /\ req.contentType = "application/json"
             /\ SignatureMatches(req) /\ ~OutsideTolerance(req)
             /\ req.body.type \notin {"payment.succeeded", "payment.failed",
                                      "payment.cancelled"})
            => /\ resp'.status = 200
               /\ orders' = orders /\ products' = products ]_vars

\* C38: a webhook that carries the provider's signature and whose payload
\* names no order or no payment is answered with 200 and changes no order
\* and no product, at once or by a write that lands later.
C38_NothingToReconcile ==
    [][ LET req == lastReq'.req
        IN  (/\ Handles(WebhookRoutes) /\ webhookSecret = "ok"
             /\ FromProvider(req)
             /\ req.body.orderId = None \/ req.body.paymentId = None)
            => /\ resp'.status = 200
               /\ orders' = orders /\ products' = products
               /\ pendingWrites' = pendingWrites ]_vars

====
